---- MODULE Spec2Model ----
(***************************************************************************)
(* A model of trends_agent.py: one run reads the Config tab, asks AniList  *)
(* for the trending manga, asks Google Trends for the rising queries of    *)
(* four seeds, merges both lists by score and appends the rows to the      *)
(* DailyTrends tab.                                                        *)
(*                                                                         *)
(* Representation.  A Python str is a sequence of one-character strings,   *)
(* so that str.strip, str.isdigit and int() are computed.  None is the     *)
(* value None where a str is expected and NoneInt where an int is.  A      *)
(* float score is held exactly, in thousandths before round(x, 2) and in   *)
(* hundredths after it.                                                    *)
(***************************************************************************)
EXTENDS Integers, Sequences, FiniteSets, TLC

VARIABLES
  pc,           \* where main() stands, or "call"/"ret" for one function call
  runs,         \* invocations of the job started so far
  now,          \* the UTC day the clock shows
  configSheet,  \* the Config tab: Missing, or its rows (header first)
  sheet,        \* the DailyTrends tab: the rows appended so far
  sheetAtStart, \* DailyTrends as it was when the current run started
  cfg,          \* read_config's result
  date,         \* main's date
  media,        \* the media list of the catalog response of this run
  anilist,      \* fetch_anilist_trending's result
  seedIdx,      \* fetch_google_trends: index of the next seed
  all_rows,     \* fetch_google_trends: all_rows
  returned,     \* every rising row the trends service returned in this run
  gtrends,      \* fetch_google_trends's result
  merged,       \* main's merged
  calls,        \* requests made in this run: catalog, trends, append
  fault,        \* the exception that ended this run, "none" if none did
  trendsFault,  \* how the trends fetcher failed in this run, "none" if not
  input,        \* the argument of a single function call
  output        \* its result

vars == <<pc, runs, now, configSheet, sheet, sheetAtStart, cfg, date, media,
          anilist, seedIdx, all_rows, returned, gtrends, merged, calls, fault,
          trendsFault, input, output>>

runVars == <<runs, now, configSheet, sheet, sheetAtStart, cfg, date, media,
             anilist, seedIdx, all_rows, returned, gtrends, merged, calls,
             fault, trendsFault>>

-----------------------------------------------------------------------------
(* Python values *)

None == <<"None">>
NoneInt == -1

Whitespace == {" ", "\t", "\n"}

RECURSIVE LStrip(_)
LStrip(s) ==
  IF s # <<>> /\ Head(s) \in Whitespace THEN LStrip(Tail(s)) ELSE s

RECURSIVE RStrip(_)
RStrip(s) ==
  IF s # <<>> /\ s[Len(s)] \in Whitespace
  THEN RStrip(SubSeq(s, 1, Len(s) - 1))
  ELSE s

\* str.strip()
Strip(s) == RStrip(LStrip(s))

\* bool(x) of a str or None
Truthy(x) == x # None /\ x # <<>>

\* x or y
Or(x, y) == IF Truthy(x) THEN x ELSE y

\* dict.get(k)
Get(t, k) == IF k \in DOMAIN t THEN t[k] ELSE None

\* int(x or 0) of an int or None
IntOr0(x) == IF x = NoneInt \/ x = 0 THEN 0 ELSE x

\* round(x, 2): x in thousandths, the result in hundredths, ties to even
Round2(x) ==
  LET q == x \div 10
      r == x % 10
  IN  IF r < 5 THEN q
      ELSE IF r > 5 THEN q + 1
      ELSE IF q % 2 = 0 THEN q ELSE q + 1

Min(a, b) == IF a < b THEN a ELSE b

-----------------------------------------------------------------------------
(* pick_title *)

pick_title_unstripped(t) ==
  Or(Or(Or(Get(t, "english"), Get(t, "romaji")), Get(t, "native")), <<>>)

pick_title(t) ==
  Strip(Or(Or(Or(Get(t, "english"), Get(t, "romaji")), Get(t, "native")), <<>>))

-----------------------------------------------------------------------------
(* The scorer and the entry fetch_anilist_trending builds of one item *)

\* trending * 2 + popularity * 0.01 + favourites * 0.05, in thousandths
ScoreFlat(trending, popularity, favourites) ==
  trending * 2000 + popularity * 10 + favourites * 10

Score(trending, popularity, favourites) ==
  trending * 2000 + popularity * 10 + favourites * 50

AniListEntry(m) ==
  LET trending == IntOr0(m.trending)
      popularity == IntOr0(m.popularity)
      favourites == IntOr0(m.favourites)
  IN  [title |-> pick_title(m.title),
       source |-> "AniList",
       score |-> Round2(Score(trending, popularity, favourites)),
       details |-> <<"trending", trending, "pop", popularity,
                     "fav", favourites>>]

-----------------------------------------------------------------------------
(* read_config *)

DefaultLimit == 30
DefaultCfg == [country |-> <<"M", "A">>, limit |-> DefaultLimit]

AsciiDigits == {"0", "1", "2", "3", "4", "5", "6", "7", "8", "9"}

\* "sup2" stands for the one character U+00B2: str.isdigit() is True of it
\* and int() raises ValueError on it
DigitChars == AsciiDigits \cup {"sup2"}

\* str.isdigit()
IsDigit(s) == s # <<>> /\ \A i \in 1..Len(s) : s[i] \in DigitChars

\* whether int(s) returns, for s.isdigit()
IntAccepts(s) == \A i \in 1..Len(s) : s[i] \in AsciiDigits

DigitValue(c) ==
  CASE c = "0" -> 0 [] c = "1" -> 1 [] c = "2" -> 2 [] c = "3" -> 3
    [] c = "4" -> 4 [] c = "5" -> 5 [] c = "6" -> 6 [] c = "7" -> 7
    [] c = "8" -> 8 [] c = "9" -> 9

\* int(s)
RECURSIVE ParseInt(_)
ParseInt(s) ==
  IF s = <<>> THEN 0
  ELSE 10 * ParseInt(SubSeq(s, 1, Len(s) - 1)) + DigitValue(s[Len(s)])

KeyCountry == <<"c", "o", "u", "n", "t", "r", "y">>
KeyLimit == <<"l", "i", "m", "i", "t">>

\* the loop over the rows; an exception leaves the loop and is swallowed,
\* cfg keeps what the rows before it assigned
RECURSIVE ConfigLoop(_, _)
ConfigLoop(c, rows) ==
  IF rows = <<>> THEN c
  ELSE
    LET row == Head(rows) IN
    IF Len(row) # 2 THEN c
    ELSE
      LET k == Strip(Or(row[1], <<>>))
          v == Strip(Or(row[2], <<>>))
          c1 == IF k = KeyCountry /\ v # <<>>
                THEN [c EXCEPT !.country = v] ELSE c
      IN  IF k = KeyLimit /\ IsDigit(v)
          THEN IF IntAccepts(v)
               THEN ConfigLoop([c1 EXCEPT !.limit = ParseInt(v)], Tail(rows))
               ELSE c1
          ELSE ConfigLoop(c1, Tail(rows))

read_config(ws) ==
  IF ~ws.exists THEN DefaultCfg
  ELSE ConfigLoop(DefaultCfg, SubSeq(ws.rows, 2, Len(ws.rows)))

-----------------------------------------------------------------------------
(* fetch_anilist_trending *)

\* The request asks for page 1 with perPage = min(limit, 50); whatever list
\* comes back is cut to its first limit items.
AniListResultsAll(items, limit) ==
  [i \in 1..Len(items) |-> AniListEntry(items[i])]

\* items = media[:limit], one entry per item
AniListResults(items, limit) ==
  [i \in 1..Min(limit, Len(items)) |-> AniListEntry(items[i])]

-----------------------------------------------------------------------------
(* fetch_google_trends *)

Seeds == <<"manga", "manhwa", "webtoon", "anime manga">>

TrendsCap == 20

\* rq.head(limit)
HeadRows(rq, limit) == SubSeq(rq, 1, Min(limit, Len(rq)))

\* the rows one seed appends to all_rows
SeedRows(rq, seed, limit) ==
  LET h == HeadRows(rq, limit)
  IN  [i \in 1..Len(h) |->
         [q |-> Strip(h[i].query), v |-> h[i].value, seed |-> seed]]

\* the place of q in best, 0 when q is no key of it
IndexOf(best, q) ==
  IF \E i \in 1..Len(best) : best[i].q = q
  THEN CHOOSE i \in 1..Len(best) : best[i].q = q
  ELSE 0

\* best, a dict: its keys in insertion order
RECURSIVE BestOfLast(_, _)
BestOfLast(best, rows) ==
  IF rows = <<>> THEN best
  ELSE
    LET r == Head(rows)
        i == IndexOf(best, r.q)
    IN  BestOfLast(IF i = 0 THEN Append(best, r)
                   ELSE [best EXCEPT ![i] = r],
                   Tail(rows))

RECURSIVE BestOf(_, _)
BestOf(best, rows) ==
  IF rows = <<>> THEN best
  ELSE
    LET r == Head(rows)
        i == IndexOf(best, r.q)
    IN  BestOf(IF i = 0 THEN Append(best, r)
               ELSE IF r.v > best[i].v THEN [best EXCEPT ![i] = r]
               ELSE best,
               Tail(rows))

\* sorted(..., reverse=True) and list.sort(reverse=True) are stable: equal
\* keys keep their order.  s is a sequence of [key, item].
RECURSIVE InsertDescFront(_, _)
InsertDescFront(s, x) ==
  IF s = <<>> THEN <<x>>
  ELSE IF Head(s).key > x.key
       THEN <<Head(s)>> \o InsertDescFront(Tail(s), x)
       ELSE <<x>> \o s

RECURSIVE InsertDesc(_, _)
InsertDesc(s, x) ==
  IF s = <<>> THEN <<x>>
  ELSE IF Head(s).key >= x.key
       THEN <<Head(s)>> \o InsertDesc(Tail(s), x)
       ELSE <<x>> \o s

RECURSIVE SortDesc(_)
SortDesc(s) ==
  IF s = <<>> THEN <<>>
  ELSE InsertDesc(SortDesc(SubSeq(s, 1, Len(s) - 1)), s[Len(s)])

\* float(v) of a whole number, in thousandths
ToThousandths(v) == v * 1000

TrendsEntry(b) ==
  [title |-> b.q,
   source |-> "GoogleTrends",
   score |-> Round2(ToThousandths(b.v)),
   details |-> <<"seed", b.seed, "rising", b.v>>]

\* the part of fetch_google_trends after the loop
TrendsResults(rows, limit) ==
  LET best == BestOf(<<>>, rows)
      keyed == [i \in 1..Len(best) |-> [key |-> best[i].v, item |-> best[i]]]
      srt == SortDesc(keyed)
  IN  [i \in 1..Min(limit, Len(srt)) |-> TrendsEntry(srt[i].item)]

-----------------------------------------------------------------------------
(* main: the rows, their order *)

MakeRowShort(d, item) ==
  <<d, item.title, item.source, item.score>>

MakeRow(d, item) ==
  <<d, item.title, item.source, item.score, item.details>>

\* merged before the sort
Rows(d, cat, tr) ==
  [i \in 1..Len(cat) |-> MakeRow(d, cat[i])]
    \o [i \in 1..Len(tr) |-> MakeRow(d, tr[i])]

\* merged.sort(key=lambda r: float(r[3]), reverse=True)
SortRows(rows) ==
  LET keyed == [i \in 1..Len(rows) |-> [key |-> rows[i][4], item |-> rows[i]]]
      srt == SortDesc(keyed)
  IN  [i \in 1..Len(srt) |-> srt[i].item]

-----------------------------------------------------------------------------
(* Bounds and the inputs the environment supplies *)

MaxRuns == 2        \* invocations of the job
MaxRising == 2      \* rows of one seed's rising table
MaxReturned == 4    \* rising rows over the four seeds of one call
MaxLimit == 2       \* the small limits tried, beside the default
MaxConfigRows == 2  \* rows of the Config tab under its header
MaxSignal == 2      \* the small trending/popularity/favourites values tried
MaxMerge == 2       \* entries of each source handed to the merge

SeqsUpTo(S, n) == UNION {[1..k -> S] : k \in 0..n}

A == <<"A">>
B == <<"B">>

\* the media items of the catalog: both score 1.00
ItemA ==
  [title |-> [english |-> A, romaji |-> <<"R">>],
   trending |-> 0, popularity |-> 100, favourites |-> 0]
ItemB ==
  [title |-> [english |-> None, romaji |-> <<" ">> \o B, native |-> <<"N">>],
   trending |-> NoneInt, popularity |-> 0, favourites |-> 20]

CatalogFailures == {"connection_error", "timeout", "http_error", "malformed"}

\* the media lists the catalog answers with in the runs
RunPages == {<<ItemB>>, <<ItemA, ItemB>>, <<ItemB, ItemA, ItemA>>}

\* what requests.post and the reading of the response can come to
CatalogResponses ==
  [status : {"ok"}, media : RunPages]
    \cup [status : CatalogFailures, media : {<<>>}]

Header == <<<<"k", "e", "y">>, <<"v", "a", "l">>>>

\* the Config tabs of the runs
RunConfigSheets ==
  { [exists |-> FALSE, rows |-> <<>>],
    [exists |-> TRUE, rows |-> <<Header, <<KeyLimit, <<"2">>>>>>],
    [exists |-> TRUE,
     rows |-> <<Header, <<KeyCountry, <<"F", "R">>>>,
                <<<<" ">> \o KeyLimit, <<"1", " ">>>>,
                <<KeyLimit, <<"sup2">>>>>>] }

\* the rising table the trends service answers with in the runs
RunRising ==
  { <<[query |-> <<" ", "a">>, value |-> 1], [query |-> <<"b">>, value |-> 2]>> }

NoCalls == [config |-> 0, catalog |-> 0, trends |-> 0, append |-> 0]

-----------------------------------------------------------------------------
(* main, step by step *)

FreshLocals ==
  /\ date = 0
  /\ media = <<>>
  /\ anilist = <<>>
  /\ seedIdx = 1
  /\ all_rows = <<>>
  /\ returned = <<>>
  /\ gtrends = <<>>
  /\ merged = <<>>
  /\ calls = NoCalls
  /\ fault = "none"
  /\ trendsFault = "none"

FreshRun == cfg = DefaultCfg /\ FreshLocals

Init ==
  /\ pc = "start"
  /\ runs = 1
  /\ now = 1
  /\ configSheet \in RunConfigSheets
  /\ sheet = <<>>
  /\ sheetAtStart = <<>>
  /\ FreshRun
  /\ input = <<>>
  /\ output = <<>>

\* get_gspread_client: the credentials are there and accepted, or it raises
GetClient ==
  /\ pc = "start"
  /\ \E ok \in BOOLEAN :
       IF ok THEN pc' = "config" /\ fault' = fault
       ELSE pc' = "error" /\ fault' = "credentials"
  /\ UNCHANGED <<runs, now, configSheet, sheet, sheetAtStart, cfg, date, media,
                 anilist, seedIdx, all_rows, returned, gtrends, merged, calls,
                 trendsFault, input, output>>

\* cfg = read_config(sh)
ReadConfig ==
  /\ pc = "config"
  /\ cfg' = read_config(configSheet)
  /\ calls' = [calls EXCEPT !.config = @ + 1]
  /\ pc' = "date"
  /\ UNCHANGED <<runs, now, configSheet, sheet, sheetAtStart, date, media,
                 anilist, seedIdx, all_rows, returned, gtrends, merged, fault,
                 trendsFault, input, output>>

\* date = utc_date_str()
ReadDate ==
  /\ pc = "date"
  /\ date' = now
  /\ pc' = "catalog"
  /\ UNCHANGED <<runs, now, configSheet, sheet, sheetAtStart, cfg, media,
                 anilist, seedIdx, all_rows, returned, gtrends, merged, calls,
                 fault, trendsFault, input, output>>

\* a failed request is taken for an empty catalog and the run goes on
FetchCatalogLenient ==
  /\ pc = "catalog"
  /\ \E r \in CatalogResponses :
       /\ calls' = [calls EXCEPT !.catalog = @ + 1]
       /\ media' = r.media
       /\ anilist' = AniListResults(r.media, cfg.limit)
       /\ pc' = "trends"
       /\ fault' = IF r.status = "ok" THEN fault ELSE "catalog"
  /\ UNCHANGED <<runs, now, configSheet, sheet, sheetAtStart, cfg, date,
                 seedIdx, all_rows, returned, gtrends, merged, trendsFault,
                 input, output>>

\* anilist = fetch_anilist_trending(limit=limit): one request; an error, a
\* timeout, a non-success status or a malformed response raises out of main
FetchCatalog ==
  /\ pc = "catalog"
  /\ \E r \in CatalogResponses :
       /\ calls' = [calls EXCEPT !.catalog = @ + 1]
       /\ IF r.status = "ok"
          THEN /\ media' = r.media
               /\ anilist' = AniListResults(r.media, cfg.limit)
               /\ pc' = "trends"
               /\ fault' = fault
          ELSE /\ pc' = "error"
               /\ fault' = "catalog"
               /\ UNCHANGED <<media, anilist>>
  /\ UNCHANGED <<runs, now, configSheet, sheet, sheetAtStart, cfg, date,
                 seedIdx, all_rows, returned, gtrends, merged, trendsFault,
                 input, output>>

\* the limit main hands to fetch_google_trends
TrendsLimit == Min(TrendsCap, cfg.limit)

\* the start of fetch_google_trends: TrendReq with retries, and without them
\* when that raises TypeError; any other exception, and any exception of
\* the second construction, is outside every try block
TrendsSetup ==
  /\ pc = "trends"
  /\ calls' = [calls EXCEPT !.trends = @ + 1]
  /\ \E first \in {"ok", "type_error", "error"}, second \in {"ok", "error"} :
       IF first = "ok" \/ (first = "type_error" /\ second = "ok")
       THEN /\ pc' = "seed"
            /\ seedIdx' = 1
            /\ all_rows' = <<>>
            /\ UNCHANGED <<fault, trendsFault>>
       ELSE /\ pc' = "error"
            /\ fault' = "trends_setup"
            /\ trendsFault' = "setup"
            /\ UNCHANGED <<seedIdx, all_rows>>
  /\ UNCHANGED <<runs, now, configSheet, sheet, sheetAtStart, cfg, date, media,
                 anilist, returned, gtrends, merged, input, output>>

\* one turn of the loop over the seeds; Rising is the set of rising tables
\* the service may answer with.  It ends in a rate limit or another error
\* (return []), in no rising table (continue), or in the table's first rows
\* added to all_rows.  The locals are gone when the function returns.
TrendsSeed(Rising) ==
  /\ pc = "seed"
  /\ seedIdx <= Len(Seeds)
  /\ \/ \E e \in {"rate_limit", "error"} :
          /\ gtrends' = <<>>
          /\ trendsFault' = e
          /\ pc' = "merge"
          /\ UNCHANGED <<seedIdx, all_rows, returned>>
     \/ /\ seedIdx' = seedIdx + 1
        /\ UNCHANGED <<pc, all_rows, returned, gtrends, trendsFault>>
     \/ \E rq \in Rising :
          /\ all_rows' = all_rows \o SeedRows(rq, Seeds[seedIdx], TrendsLimit)
          /\ returned' = returned \o
               [i \in 1..Len(rq) |->
                  [q |-> rq[i].query, v |-> rq[i].value, seed |-> Seeds[seedIdx]]]
          /\ seedIdx' = seedIdx + 1
          /\ UNCHANGED <<pc, gtrends, trendsFault>>
  /\ UNCHANGED <<runs, now, configSheet, sheet, sheetAtStart, cfg, date, media,
                 anilist, merged, calls, fault, input, output>>

\* after the loop: deduplicate, sort, truncate, return
TrendsFinish ==
  /\ pc = "seed"
  /\ seedIdx > Len(Seeds)
  /\ gtrends' = TrendsResults(all_rows, TrendsLimit)
  /\ pc' = "merge"
  /\ seedIdx' = 1
  /\ all_rows' = <<>>
  /\ UNCHANGED <<runs, now, configSheet, sheet, sheetAtStart, cfg, date, media,
                 anilist, returned, merged, calls, fault, trendsFault, input,
                 output>>

\* merged: the catalog rows, the trends rows, sorted.  The record of what
\* the trends service returned ends with the use of the fetcher's result.
Merge ==
  /\ pc = "merge"
  /\ merged' = SortRows(Rows(date, anilist, gtrends))
  /\ returned' = <<>>
  /\ pc' = "append"
  /\ UNCHANGED <<runs, now, configSheet, sheet, sheetAtStart, cfg, date, media,
                 anilist, seedIdx, all_rows, gtrends, calls, fault,
                 trendsFault, input, output>>

AppendRowsOverwrite(ws, rows) == rows

\* ws.append_rows(rows)
AppendRows(ws, rows) == ws \o rows

\* append_rows(sh, merged): the rows are appended, or the sink raises
AppendToSheet ==
  /\ pc = "append"
  /\ calls' = [calls EXCEPT !.append = @ + 1]
  /\ \E ok \in BOOLEAN :
       IF ok
       THEN /\ sheet' = AppendRows(sheet, merged)
            /\ pc' = "done"
            /\ fault' = fault
       ELSE /\ sheet' = sheet
            /\ pc' = "error"
            /\ fault' = "sink"
  /\ UNCHANGED <<runs, now, configSheet, sheetAtStart, cfg, date, media,
                 anilist, seedIdx, all_rows, returned, gtrends, merged,
                 trendsFault, input, output>>

\* the job is invoked again, the same day or the next, with nothing in
\* memory of the run before
NextRun ==
  /\ pc \in {"done", "error"}
  /\ runs < MaxRuns
  /\ runs' = runs + 1
  /\ now' \in {now, now + 1}
  /\ sheetAtStart' = sheet
  /\ cfg' = DefaultCfg
  /\ date' = 0
  /\ media' = <<>>
  /\ anilist' = <<>>
  /\ seedIdx' = 1
  /\ all_rows' = <<>>
  /\ returned' = <<>>
  /\ gtrends' = <<>>
  /\ merged' = <<>>
  /\ calls' = NoCalls
  /\ fault' = "none"
  /\ trendsFault' = "none"
  /\ pc' = "start"
  /\ UNCHANGED <<configSheet, sheet, input, output>>

Next ==
  \/ GetClient
  \/ ReadConfig
  \/ ReadDate
  \/ FetchCatalog
  \/ TrendsSetup
  \/ TrendsSeed(RunRising)
  \/ TrendsFinish
  \/ Merge
  \/ AppendToSheet
  \/ NextRun

Spec == Init /\ [][Next]_vars

-----------------------------------------------------------------------------
(* read_config alone, over the contents of the Config tab *)

ConfigKeys ==
  {KeyCountry, KeyLimit, <<" ">> \o KeyLimit \o <<" ">>, <<"x">>, None}
ConfigValues ==
  {<<>>, <<"2">>, <<" ", "3", " ">>, <<"1", "0">>, <<"F", "R">>, <<"sup2">>}

\* get_all_values() returns a rectangle: every row of a tab has the width
\* of the tab, here two cells, or one, or three
ConfigRows == {<<k, v>> : k \in ConfigKeys, v \in ConfigValues}
NarrowRows == {<<KeyLimit>>, <<KeyCountry>>}
WideRows == {<<KeyLimit, <<"2">>, <<"x">>>>, <<KeyCountry, <<"F", "R">>, <<>>>>}

ConfigSheets ==
  {[exists |-> FALSE, rows |-> <<>>], [exists |-> TRUE, rows |-> <<>>]}
    \cup {[exists |-> TRUE, rows |-> <<Header>> \o r] :
            r \in SeqsUpTo(ConfigRows, MaxConfigRows)}
    \cup {[exists |-> TRUE, rows |-> <<<<Header[1]>>>> \o r] :
            r \in SeqsUpTo(NarrowRows, MaxConfigRows)}
    \cup {[exists |-> TRUE, rows |-> <<Header \o <<<<>>>>>> \o r] :
            r \in SeqsUpTo(WideRows, MaxConfigRows)}

IdleRun ==
  /\ runs = 1
  /\ now = 1
  /\ sheet = <<>>
  /\ sheetAtStart = <<>>
  /\ input = <<>>
  /\ output = <<>>

InitConfig ==
  /\ pc = "config"
  /\ configSheet \in ConfigSheets
  /\ IdleRun
  /\ FreshRun

SpecConfig == InitConfig /\ [][ReadConfig]_vars

-----------------------------------------------------------------------------
(* fetch_google_trends alone, over the answers of the trends service *)

\* "a" and " a" are one query once stripped
RisingRows ==
  { [query |-> <<"a">>, value |-> 1], [query |-> <<" ", "a">>, value |-> 2],
    [query |-> <<"b">>, value |-> 1], [query |-> <<"b">>, value |-> 2] }

\* the tables the service may answer with now
RisingTables ==
  {t \in SeqsUpTo(RisingRows, MaxRising) : Len(returned) + Len(t) <= MaxReturned}

InitTrends ==
  /\ pc = "trends"
  /\ configSheet = [exists |-> FALSE, rows |-> <<>>]
  /\ cfg \in [country : {DefaultCfg.country},
              limit : (0..MaxLimit) \cup {DefaultLimit}]
  /\ IdleRun
  /\ FreshLocals

NextTrends ==
  \/ TrendsSetup
  \/ TrendsSeed(RisingTables)
  \/ TrendsFinish

SpecTrends == InitTrends /\ [][NextTrends]_vars

-----------------------------------------------------------------------------
(* the merge alone, over the lists of the two fetchers *)

ItemC ==
  [title |-> [english |-> <<>>, native |-> <<"C">>],
   trending |-> 1, popularity |-> NoneInt, favourites |-> 0]

MergeCatalog == {AniListEntry(ItemA), AniListEntry(ItemB), AniListEntry(ItemC)}

MergeTrends ==
  {TrendsEntry([q |-> <<"a">>, v |-> 1, seed |-> Seeds[1]]),
   TrendsEntry([q |-> <<"b">>, v |-> 2, seed |-> Seeds[2]]),
   TrendsEntry([q |-> <<"c">>, v |-> 3, seed |-> Seeds[2]])}

InitMerge ==
  /\ pc = "merge"
  /\ configSheet = [exists |-> FALSE, rows |-> <<>>]
  /\ IdleRun
  /\ cfg = DefaultCfg
  /\ date = 1
  /\ media = <<>>
  /\ anilist \in SeqsUpTo(MergeCatalog, MaxMerge)
  /\ seedIdx = 1
  /\ all_rows = <<>>
  /\ returned = <<>>
  /\ gtrends \in SeqsUpTo(MergeTrends, MaxMerge)
  /\ merged = <<>>
  /\ calls = NoCalls
  /\ fault = "none"
  /\ trendsFault = "none"

SpecMerge == InitMerge /\ [][Merge]_vars

-----------------------------------------------------------------------------
(* pick_title alone, over the title records *)

TitleKeys == {"english", "romaji", "native"}

Letter(k) ==
  CASE k = "english" -> "E" [] k = "romaji" -> "R" [] k = "native" -> "N"

\* null, empty, whitespace only, padded, plain
TitleValues(k) ==
  {None, <<>>, <<" ">>, <<" ", Letter(k), "\t">>, <<Letter(k)>>}

TitleRecords ==
  UNION {{t \in [D -> UNION {TitleValues(k) : k \in D}] :
            \A k \in D : t[k] \in TitleValues(k)} : D \in SUBSET TitleKeys}

InitTitle ==
  /\ pc = "call"
  /\ input \in TitleRecords
  /\ output = <<>>
  /\ configSheet = [exists |-> FALSE, rows |-> <<>>]
  /\ runs = 1 /\ now = 1 /\ sheet = <<>> /\ sheetAtStart = <<>>
  /\ FreshRun

CallPickTitle ==
  /\ pc = "call"
  /\ output' = pick_title(input)
  /\ pc' = "ret"
  /\ UNCHANGED <<input, runVars>>

SpecTitle == InitTitle /\ [][CallPickTitle]_vars

-----------------------------------------------------------------------------
(* the scorer alone, over the three signals *)

SignalValues == {NoneInt} \cup (0..MaxSignal) \cup {10, 20, 100}

ScoreInputs ==
  [title : {[english |-> A]}, trending : SignalValues,
   popularity : SignalValues, favourites : SignalValues]

InitScore ==
  /\ pc = "call"
  /\ input \in ScoreInputs
  /\ output = <<>>
  /\ configSheet = [exists |-> FALSE, rows |-> <<>>]
  /\ runs = 1 /\ now = 1 /\ sheet = <<>> /\ sheetAtStart = <<>>
  /\ FreshRun

CallEntry ==
  /\ pc = "call"
  /\ output' = AniListEntry(input)
  /\ pc' = "ret"
  /\ UNCHANGED <<input, runVars>>

SpecScore == InitScore /\ [][CallEntry]_vars

-----------------------------------------------------------------------------
(* The claims *)

IsPrefix(s, t) == Len(s) <= Len(t) /\ SubSeq(t, 1, Len(s)) = s

\* a title of the record that is there, not null and not empty
Present(t, k) == k \in DOMAIN t /\ t[k] # None /\ t[k] # <<>>

\* english if non-empty, else romaji if non-empty, else native if
\* non-empty, else the empty string
TitleRule(t) ==
  IF Present(t, "english") THEN t["english"]
  ELSE IF Present(t, "romaji") THEN t["romaji"]
  ELSE IF Present(t, "native") THEN t["native"]
  ELSE <<>>

\* C9, as stated: pick_title returns the english string if it is non-empty,
\* otherwise the romaji string if non-empty, otherwise the native string if
\* non-empty, otherwise the empty string, whitespace-only and padded strings
\* included.
C9_TitleUnchanged == pc = "ret" => output = TitleRule(input)

\* C9, amended: pick_title returns the first of english, romaji, native that
\* is non-empty (the empty string if none is) with its leading and trailing
\* whitespace removed; a whitespace-only english therefore gives the empty
\* string and romaji is not consulted.
C9_TitleStripped == pc = "ret" => output = Strip(TitleRule(input))

\* a whitespace-only english title hides a romaji title
C9_Witness ==
  /\ pc = "ret"
  /\ Present(input, "english") /\ Strip(input["english"]) = <<>>
  /\ Present(input, "romaji") /\ Strip(input["romaji"]) # <<>>
  /\ output = <<>>

\* a signal, null treated as 0
Signal(x) == IF x = NoneInt THEN 0 ELSE x

ExpectedScore(m) ==
  200 * Signal(m.trending) + Signal(m.popularity) + 5 * Signal(m.favourites)

\* the score does not fall when one signal rises and the others stay
Monotonic ==
  \A x \in SignalValues :
    /\ Signal(x) >= Signal(input.trending)
         => AniListEntry([input EXCEPT !.trending = x]).score >= output.score
    /\ Signal(x) >= Signal(input.popularity)
         => AniListEntry([input EXCEPT !.popularity = x]).score >= output.score
    /\ Signal(x) >= Signal(input.favourites)
         => AniListEntry([input EXCEPT !.favourites = x]).score >= output.score

IsSignals(m, t, p, f) ==
  m.trending = t /\ m.popularity = p /\ m.favourites = f

\* C10, as stated: the score in hundredths is 200*trending + popularity +
\* 5*favourites, so score(0,0,0) = 0.00 and score(10,100,20) = 21.00, and
\* the score is monotonic non-decreasing in each input.
C10_ScoreAsStated ==
  pc = "ret" =>
    /\ output.score = ExpectedScore(input)
    /\ IsSignals(input, 0, 0, 0) => output.score = 0
    /\ IsSignals(input, 10, 100, 20) => output.score = 2100
    /\ Monotonic

\* C10, amended: the score in hundredths is 200*trending + popularity +
\* 5*favourites, so score(0,0,0) = 0.00 and score(10,100,20) = 22.00, and
\* the score is monotonic non-decreasing in each input.
C10_Score ==
  pc = "ret" =>
    /\ output.score = ExpectedScore(input)
    /\ IsSignals(input, 0, 0, 0) => output.score = 0
    /\ IsSignals(input, 10, 100, 20) => output.score = 2200
    /\ Monotonic

\* score(10,100,20) has been computed
C10_Witness ==
  pc = "ret" /\ IsSignals(input, 10, 100, 20) /\ output.score = 2200

\* the rows of s whose score is x, in their order
WithScore(s, x) == LET T(r) == r[4] = x IN SelectSeq(s, T)

\* C4: the merged list is a permutation of the catalog rows followed by the
\* trends rows, sorted by score in non-increasing order, and rows of equal
\* score keep the order they had in the input.
C4_MergeStable ==
  pc = "append" =>
    LET in == Rows(date, anilist, gtrends)
    IN  /\ Len(merged) = Len(in)
        /\ \A i \in 1..(Len(merged) - 1) : merged[i][4] >= merged[i + 1][4]
        /\ \A i \in 1..Len(in) :
             WithScore(merged, in[i][4]) = WithScore(in, in[i][4])

\* a catalog row and a trends row tie, and the sort has moved rows
C4_Witness ==
  /\ pc = "append"
  /\ merged # Rows(date, anilist, gtrends)
  /\ \E i, j \in 1..Len(merged) :
       /\ i < j
       /\ merged[i][4] = merged[j][4]
       /\ merged[i][3] = "AniList"
       /\ merged[j][3] = "GoogleTrends"

\* a row read_config cannot take: not two cells, or a limit that
\* str.isdigit accepts and int rejects
BadRow(row) ==
  \/ Len(row) # 2
  \/ /\ Strip(Or(row[1], <<>>)) = KeyLimit
     /\ IsDigit(Strip(Or(row[2], <<>>)))
     /\ ~IntAccepts(Strip(Or(row[2], <<>>)))

\* reading the tab raises: the tab is missing or one of its rows is bad
ReadError(ws) ==
  \/ ~ws.exists
  \/ \E i \in 2..Len(ws.rows) : BadRow(ws.rows[i])

\* C3: read_config does not raise, and whenever a read error occurred the
\* returned config is exactly the defaults limit=30 and country="MA".
C3_DefaultsOnError ==
  pc = "date" => (ReadError(configSheet) => cfg = DefaultCfg)

\* the rows of the record, by index, that are among the first limit rows
\* their seed returned
FirstOfSeed(rows, limit) ==
  {i \in 1..Len(rows) :
     Cardinality({j \in 1..i : rows[j].seed = rows[i].seed}) <= limit}

QueryTexts(rows, I) == {Strip(rows[i].q) : i \in I}

ValuesOf(rows, I, q) == {rows[i].v : i \in {j \in I : Strip(rows[j].q) = q}}

MaxValue(rows, I, q) ==
  CHOOSE v \in ValuesOf(rows, I, q) : \A w \in ValuesOf(rows, I, q) : v >= w

\* result is 'dedupe the rows I by query keeping the maximum value, sort
\* descending by value, take limit': one entry per query text, its score the
\* maximum value of the query, non-increasing, limit entries or all of them,
\* and no query left out has a value above an entry's
DedupRanked(rows, I, limit, result) ==
  /\ Len(result) = Min(limit, Cardinality(QueryTexts(rows, I)))
  /\ \A i \in 1..Len(result) :
       /\ result[i].title \in QueryTexts(rows, I)
       /\ result[i].score = 100 * MaxValue(rows, I, result[i].title)
       /\ result[i].source = "GoogleTrends"
  /\ \A i, j \in 1..Len(result) : i # j => result[i].title # result[j].title
  /\ \A i \in 1..(Len(result) - 1) : result[i].score >= result[i + 1].score
  /\ \A q \in QueryTexts(rows, I) \ {result[i].title : i \in 1..Len(result)} :
       \A i \in 1..Len(result) : result[i].score >= 100 * MaxValue(rows, I, q)

TrendsReturned == pc = "merge" /\ trendsFault = "none"

\* C5, as stated: when no seed fails, fetch_google_trends returns one entry
\* per distinct query text among all the rising pairs the four seeds
\* returned, its score the maximum value seen for the query, ordered by value
\* descending and truncated to limit.
C5_DedupAllPairs ==
  TrendsReturned =>
    DedupRanked(returned, 1..Len(returned), TrendsLimit, gtrends)

\* C5, amended: when no seed fails, fetch_google_trends returns one entry per
\* distinct (stripped) query text among the first limit rising pairs of each
\* seed, its score the maximum value seen for the query among those pairs,
\* ordered by value descending and truncated to limit.
C5_DedupFirstPairs ==
  TrendsReturned =>
    DedupRanked(returned, FirstOfSeed(returned, TrendsLimit), TrendsLimit, gtrends)

\* a query came from two seeds with different values, a seed's table was cut
\* to limit rows, and the result was cut to limit entries
C5_Witness ==
  /\ TrendsReturned
  /\ gtrends # <<>>
  /\ FirstOfSeed(returned, TrendsLimit) # 1..Len(returned)
  /\ Len(gtrends) < Cardinality(QueryTexts(returned, FirstOfSeed(returned, TrendsLimit)))
  /\ \E i, j \in FirstOfSeed(returned, TrendsLimit) :
       /\ returned[i].seed # returned[j].seed
       /\ Strip(returned[i].q) = Strip(returned[j].q)
       /\ returned[i].v < returned[j].v

\* the rows this run has appended
Appended == SubSeq(sheet, Len(sheetAtStart) + 1, Len(sheet))

\* C1: whenever the trends fetcher fails (a rate limit or another error on a
\* seed, or while the trends client is set up), fetch_google_trends does not
\* raise and returns an empty list, and main still appends every catalog
\* entry to the sink.
C1_TrendsIsolated ==
  trendsFault # "none" =>
    /\ fault # "trends_setup"
    /\ gtrends = <<>>
    /\ pc = "error" => fault = "sink"
    /\ pc = "done" => Appended = SortRows(Rows(date, anilist, <<>>))

\* C2: when the catalog request errors, times out, returns a non-success
\* status or a malformed response, the run is in an error state, the request
\* was made once, the trends fetcher is not invoked and nothing is appended
\* to the output sheet.
C2_CatalogFatal ==
  fault = "catalog" =>
    /\ pc = "error"
    /\ calls.catalog = 1
    /\ calls.trends = 0
    /\ calls.append = 0
    /\ sheet = sheetAtStart

\* the catalog failed in a run that found rows of an earlier run
C2_Witness == fault = "catalog" /\ sheet # <<>> /\ cfg # DefaultCfg

Statuses == {"Completed", "Ongoing", "Hiatus", "Unknown"}

\* C6, as stated: every row of the output sheet is a six-field tuple (date,
\* title, source, score, details, status) whose status is one of Completed,
\* Ongoing, Hiatus, Unknown, and every row of one run carries the date of
\* that run.
C6_SixFields ==
  /\ \A i \in 1..Len(sheet) : Len(sheet[i]) = 6 /\ sheet[i][6] \in Statuses
  /\ pc = "done" => \A i \in 1..Len(Appended) : Appended[i][1] = date

\* C6, amended: every row of the output sheet is a five-field tuple (date,
\* title, source, score, details) with no status, its source AniList or
\* GoogleTrends, and every row of one run carries the date of that run.
C6_FiveFields ==
  /\ \A i \in 1..Len(sheet) :
       Len(sheet[i]) = 5 /\ sheet[i][3] \in {"AniList", "GoogleTrends"}
  /\ pc = "done" => \A i \in 1..Len(Appended) : Appended[i][1] = date

\* a run of another day than the rows before it has appended rows of both
\* sources
C6_Witness ==
  /\ pc = "done"
  /\ sheetAtStart # <<>>
  /\ sheetAtStart[1][1] # date
  /\ \E i, j \in 1..Len(Appended) :
       Appended[i][3] = "AniList" /\ Appended[j][3] = "GoogleTrends"

OnceEach == [config |-> 1, catalog |-> 1, trends |-> 1, append |-> 1]

\* C7: no step changes or removes a row of the output sheet; the step that
\* ends a run in success is the one append of the run, made after the config
\* read and both fetches, and leaves the sheet as it was followed by the
\* merged rows, as many as the catalog and trends entries together, in the
\* order of the merge; no other step changes the sheet.
C7_AppendOnly ==
  [][/\ IsPrefix(sheet, sheet')
     /\ IF pc # "done" /\ pc' = "done"
        THEN /\ pc = "append"
             /\ calls' = OnceEach
             /\ sheet' = sheet \o merged
             /\ Len(merged) = Len(anilist) + Len(gtrends)
             /\ merged = SortRows(Rows(date, anilist, gtrends))
        ELSE sheet' = sheet]_vars

\* a later run has appended its rows after those of an earlier run
C7_Witness ==
  /\ pc = "done"
  /\ runs > 1
  /\ sheetAtStart # <<>>
  /\ Len(sheet) > Len(sheetAtStart)
  /\ gtrends # <<>>

\* the catalog request of this run has been answered
CatalogFetched == calls.catalog >= 1 /\ fault # "catalog"

\* C8, as stated: whenever the primary catalog query yields fewer than limit
\* items, the fetcher issues a fallback query.
C8_FallbackIssued ==
  CatalogFetched /\ Len(media) < cfg.limit => calls.catalog >= 2

\* C8, amended: the fetcher issues one query and never a fallback; it
\* returns one entry for each of the first limit items of the response, in
\* their order and without de-duplication, fewer than limit when the
\* response holds fewer.
C8_SingleQuery ==
  CatalogFetched =>
    /\ calls.catalog = 1
    /\ Len(anilist) = Min(cfg.limit, Len(media))
    /\ \A i \in 1..Len(anilist) : anilist[i] = AniListEntry(media[i])

\* fewer items than limit came, one of them twice, and all were kept
C8_Witness ==
  /\ CatalogFetched
  /\ Len(media) < cfg.limit
  /\ Len(anilist) = Len(media)
  /\ \E i, j \in 1..Len(anilist) : i # j /\ anilist[i] = anilist[j]

====
